---- MODULE Spec2Model ----
(***************************************************************************)
(* AutoClose-AI document workflow (src/agents): one document is run        *)
(* through Intake -> Vision (optional) -> Classification -> MCP            *)
(* (-> Summary); once by the LangGraph engine (orchestrator.run_workflow)  *)
(* and once by the sequential runner (workflow_runner.run_workflow_sync).  *)
(* Both runs get the same input and the same answers of the external       *)
(* collaborators (file system, extractors, OCR, model, stores, webhook).   *)
(* An answer is fixed the first time either run asks for it.               *)
(***************************************************************************)
EXTENDS Integers, Sequences, FiniteSets, TLC

VARIABLES input, env, st, pc, running, trace, exc, calls, caller, http, cls, ecache

vars == <<input, env, st, pc, running, trace, exc, calls, caller, http, cls, ecache>>

\* The state of the parts that take no step in the workflow itself: the HTTP
\* entrypoint, the classifier under test and the embedding cache.
aux == <<http, cls, ecache>>

\* ---------------------------------------------------------------- values
\* Python None for an optional string, and for an optional result model.
None == "None"
Null == [null |-> TRUE]

\* Python truthiness of an optional string.
Truthy(s) == s # None /\ s # ""

Runs == {"graph", "sync"}

DocumentType == {"pdf", "image", "text"}

FilePaths == {None, "doc.bin"}

RawContents == {None, "inline text"}

\* ------------------------------------------------- external collaborators
Unset == "unset"

EnvInit ==
  [exists |-> Unset, pdf |-> Unset, read |-> Unset, ocr |-> Unset,
   vision_llm |-> Unset, search |-> Unset, index |-> Unset, classify_llm |-> Unset,
   db |-> Unset, api |-> Unset, fs |-> Unset, hook |-> Unset, posted |-> {},
   summary_llm |-> Unset]

\* The answers a collaborator can give.
Answers ==
  [exists |-> {"yes", "no"},
   pdf |-> {"text", "empty", "raises"},
   read |-> {"text", "empty"},
   ocr |-> {"text", "empty"},
   vision_llm |-> {"hint", "not_json", "no_llm"},
   search |-> {"ok", "raises"},
   index |-> {"ok", "fail"},
   classify_llm |-> {"expense", "not_json", "no_llm"},
   db |-> {"ok", "fail"},
   api |-> {"ok", "fail"},
   fs |-> {"ok", "raises"},
   hook |-> {"no_url", "sent", "fail"},
   summary_llm |-> {"ok", "fails"}]

\* The answers still possible for collaborator f in environment e.
Ans(e, f) == IF e[f] = Unset THEN Answers[f] ELSE {e[f]}

Told(e, f, v) == [e EXCEPT ![f] = v]

\* ------------------------------------------------------ the document record
\* A merge that appends the messages of up to those of the record.
Merge_AppendMessages(s, up) ==
  [k \in DOMAIN s \cup DOMAIN up |->
     IF k \in DOMAIN up
     THEN IF k = "messages" /\ k \in DOMAIN s THEN s[k] \o up[k] ELSE up[k]
     ELSE s[k]]

\* {**state, **up}: fields of up win, the others are left untouched.
Merge(s, up) ==
  [k \in DOMAIN s \cup DOMAIN up |-> IF k \in DOMAIN up THEN up[k] ELSE s[k]]

\* WorkflowState(...) with only the input fields given.
WorkflowState(in) ==
  [job_id |-> "uuid of run_workflow_sync",
   document_id |-> "doc",
   file_path |-> in.file_path,
   raw_content |-> in.raw_content,
   document_type |-> in.document_type,
   intake_result |-> Null,
   vision_result |-> Null,
   classification_result |-> Null,
   mcp_result |-> Null,
   summary_result |-> Null,
   current_step |-> "intake",
   status |-> "pending",
   error |-> None,
   messages |-> <<>>,
   context_for_next_agent |-> ""]

\* The initial GraphState dict of run_workflow (no summary_result key).
GraphState(in) ==
  [job_id |-> "uuid of run_workflow",
   document_id |-> "doc",
   file_path |-> in.file_path,
   raw_content |-> in.raw_content,
   document_type |-> in.document_type,
   intake_result |-> Null,
   vision_result |-> Null,
   classification_result |-> Null,
   mcp_result |-> Null,
   current_step |-> "intake",
   status |-> "pending",
   error |-> None,
   messages |-> <<>>,
   context_for_next_agent |-> ""]

\* dict.get(k, default)
Get(d, k, default) == IF k \in DOMAIN d THEN d[k] ELSE default

\* _to_workflow: rebuild a WorkflowState from the graph's dict.
ToWorkflow(d) ==
  [job_id |-> Get(d, "job_id", ""),
   document_id |-> Get(d, "document_id", ""),
   file_path |-> Get(d, "file_path", None),
   raw_content |-> Get(d, "raw_content", None),
   document_type |-> Get(d, "document_type", "text"),
   intake_result |-> Get(d, "intake_result", Null),
   vision_result |-> Get(d, "vision_result", Null),
   classification_result |-> Get(d, "classification_result", Null),
   mcp_result |-> Get(d, "mcp_result", Null),
   summary_result |-> Null,
   current_step |-> Get(d, "current_step", "intake"),
   status |-> Get(d, "status", "pending"),
   error |-> Get(d, "error", None),
   messages |-> Get(d, "messages", <<>>),
   context_for_next_agent |-> Get(d, "context_for_next_agent", "")]

SlotKeys == {"intake_result", "vision_result", "classification_result", "mcp_result"}

\* ToUpdates leaving the error out of the update.
ToUpdates_NoError(ws) ==
  LET keys == {"current_step", "status", "messages", "context_for_next_agent"}
                \cup {k \in SlotKeys : ws[k] # Null}
  IN [k \in keys |-> ws[k]]

\* _to_updates: the five bookkeeping fields always, a result slot only when set.
ToUpdates(ws) ==
  LET keys == {"current_step", "status", "error", "messages", "context_for_next_agent"}
                \cup {k \in SlotKeys : ws[k] # Null}
  IN [k \in keys |-> ws[k]]

\* Exception raised out of a stage.
Raise == [raised |-> TRUE]

Outcome(up, e) == [up |-> up, env |-> e]

\* ------------------------------------------------------------ IntakeAgent
IntakeResult(s, extracted, metadata, requires_vision) ==
  [document_type |-> s.document_type,
   raw_content |-> extracted,
   file_path |-> s.file_path,
   metadata |-> metadata,
   requires_vision |-> requires_vision]

\* f"[Vision required: {doc_type.value}]"
Placeholder(doc_type) ==
  CASE doc_type = "pdf" -> "[Vision required: pdf]"
    [] doc_type = "image" -> "[Vision required: image]"
    [] OTHER -> "[Vision required: text]"

\* _extract_pdf: (text, metadata keys); both extractors raising gives ("", {error}).
ExtractPdf(answer) ==
  CASE answer = "text" -> <<"pdf text", {"pages"}>>
    [] answer = "empty" -> <<"", {"pages"}>>
    [] OTHER -> <<"", {"error"}>>

\* path.read_text(...)
ReadText(answer) == IF answer = "text" THEN "file text" ELSE ""

\* The update IntakeAgent.process returns after a successful intake.
IntakeReturn(s, extracted, metadata, requires_vision) ==
  [intake_result |-> IntakeResult(s, extracted, metadata, requires_vision),
   current_step |-> IF requires_vision THEN "vision" ELSE "classification",
   context_for_next_agent |->
     IF Truthy(extracted) THEN extracted ELSE Placeholder(s.document_type),
   status |-> "in_progress",
   messages |-> Append(s.messages, "Intake done")]

IntakeFailed(s) ==
  [status |-> "failed",
   error |-> "File not found",
   messages |-> Append(s.messages, "Intake failed")]

\* IntakeAgent.process: every update it can return, with the answers it used.
IntakeOutcomes(s, e) ==
  IF Truthy(s.raw_content) /\ s.document_type = "text"
  THEN {Outcome(IntakeReturn(s, s.raw_content, {}, FALSE), e)}
  ELSE IF Truthy(s.file_path)
  THEN UNION {
         LET e1 == Told(e, "exists", ex) IN
         IF ex = "no"
         THEN {Outcome(IntakeFailed(s), e1)}
         ELSE IF s.document_type = "pdf"
         THEN {LET x == ExtractPdf(a)
                   empty == ~Truthy(x[1])
               IN Outcome(IntakeReturn(s, x[1],
                                       IF empty THEN x[2] \cup {"fallback_vision"} ELSE x[2],
                                       empty),
                          Told(e1, "pdf", a))
               : a \in Ans(e1, "pdf")}
         ELSE IF s.document_type = "image"
         THEN {Outcome(IntakeReturn(s, None, {"requires_ocr"}, TRUE), e1)}
         ELSE {Outcome(IntakeReturn(s, ReadText(a), {}, FALSE), Told(e1, "read", a))
               : a \in Ans(e1, "read")}
         : ex \in Ans(e, "exists")}
  ELSE {Outcome(IntakeReturn(s, None, {}, FALSE), e)}

\* ------------------------------------------------------------ VisionAgent
\* _ocr: (text, confidence); every OCR failure gives ("", 0.0).
Ocr(answer) == IF answer = "text" THEN <<"ocr text", "ocr avg">> ELSE <<"", "0.0">>

\* _extract: the keys of the structured data; unparseable output gives {raw}.
Extract(answer) == IF answer = "hint" THEN {"amount", "category_hint", "vendor"} ELSE {"raw"}

\* VisionReturn writing the OCR text back into the intake result.
VisionReturn_RewritesIntake(s, text, structured, conf) ==
  [intake_result |-> [s.intake_result EXCEPT !.raw_content = text],
   vision_result |->
     [extracted_text |-> text,
      structured_data |-> structured,
      confidence_score |-> conf,
      metadata |-> [requires_vision |-> s.intake_result.requires_vision]],
   current_step |-> "classification",
   context_for_next_agent |-> text,
   status |-> "in_progress",
   messages |-> Append(s.messages, "Vision done")]

VisionReturn(s, text, structured, conf) ==
  [vision_result |->
     [extracted_text |-> text,
      structured_data |-> structured,
      confidence_score |-> conf,
      metadata |-> [requires_vision |-> s.intake_result.requires_vision]],
   current_step |-> "classification",
   context_for_next_agent |-> text,
   status |-> "in_progress",
   messages |-> Append(s.messages, "Vision done")]

VisionFailed(error) == [status |-> "failed", error |-> error]

VisionOutcomes(s, e) ==
  LET intake == s.intake_result IN
  IF intake = Null
  THEN {Outcome(VisionFailed("No intake"), e)}
  ELSE LET use_ocr == intake.requires_vision /\ Truthy(intake.file_path) IN
       UNION {
         LET e1 == IF use_ocr THEN Told(e, "ocr", o) ELSE e
             text == IF use_ocr THEN Ocr(o)[1]
                     ELSE IF Truthy(intake.raw_content) THEN intake.raw_content ELSE ""
             conf == IF use_ocr THEN Ocr(o)[2] ELSE "1.0"
         IN IF ~Truthy(text)
            THEN {Outcome(VisionFailed("No content"), e1)}
            ELSE {IF m = "no_llm"
                  THEN Outcome(Raise, Told(e1, "vision_llm", m))
                  ELSE Outcome(VisionReturn(s, text, Extract(m), conf),
                               Told(e1, "vision_llm", m))
                  : m \in Ans(e1, "vision_llm")}
         : o \in IF use_ocr THEN Ans(e, "ocr") ELSE {e.ocr}}

\* ---------------------------------------------------- ClassificationAgent
\* _classify: the result built from the model's answer.
Classify(answer, content) ==
  IF answer = "expense"
  THEN [category |-> "expense", amount |-> "150.0", confidence |-> "0.9",
        reasoning |-> "model", embeddings_added |-> FALSE]
  ELSE [category |-> "unknown", amount |-> None, confidence |-> "0",
        reasoning |-> "parse err", embeddings_added |-> FALSE]

\* Ask collaborator f only when the code reaches its call.
Ask(e, f, needed) == IF needed THEN Ans(e, f) ELSE {e[f]}

ClassificationReturn(s, classification, context) ==
  [classification_result |->
     [classification EXCEPT !.embeddings_added = Truthy(context)],
   current_step |-> "mcp",
   status |-> "in_progress",
   messages |-> Append(s.messages, "Classification done")]

ClassificationOutcomes(s, e) ==
  LET vision == s.vision_result
      context == IF vision # Null THEN vision.extracted_text
                 ELSE s.context_for_next_agent
  IN UNION {
       LET e1 == Told(e, "search", q) IN
       IF q = "raises"
       THEN {Outcome(Raise, e1)}
       ELSE UNION {
              IF m = "no_llm"
              THEN {Outcome(Raise, Told(e1, "classify_llm", m))}
              ELSE {Outcome(ClassificationReturn(s, Classify(m, context), context),
                            Told(Told(e1, "classify_llm", m), "index", i))
                    : i \in Ask(Told(e1, "classify_llm", m), "index", Truthy(context))}
              : m \in Ans(e1, "classify_llm")}
       : q \in Ans(e, "search")}

\* --------------------------------------------------------------- MCPAgent
\* McpReturn failing the run when nothing was recorded in the store.
McpReturn_FailsOnDb(s, db_ok, file_ok, api_ok, notify_ok) ==
  [mcp_result |->
     [database_recorded |-> db_ok,
      file_stored |-> file_ok,
      api_called |-> api_ok,
      notification_sent |-> notify_ok],
   current_step |-> "summary",
   status |-> IF db_ok THEN "in_progress" ELSE "failed",
   messages |-> Append(s.messages, "MCP done")]

\* McpReturn marking the run completed.
McpReturn_Completed(s, db_ok, file_ok, api_ok, notify_ok) ==
  [mcp_result |->
     [database_recorded |-> db_ok,
      file_stored |-> file_ok,
      api_called |-> api_ok,
      notification_sent |-> notify_ok],
   current_step |-> "end",
   status |-> "completed",
   messages |-> Append(s.messages, "MCP done")]

McpReturn(s, db_ok, file_ok, api_ok, notify_ok) ==
  [mcp_result |->
     [database_recorded |-> db_ok,
      file_stored |-> file_ok,
      api_called |-> api_ok,
      notification_sent |-> notify_ok],
   current_step |-> "summary",
   status |-> "in_progress",
   messages |-> Append(s.messages, "MCP done")]

\* The payload notify_complete builds for the call MCPAgent.process makes:
\* notify_complete(state.job_id, doc_id, ProcessingStatus.COMPLETED, ...).
Payload(s) ==
  [event |-> "workflow_complete", job_id |-> s.job_id,
   document_id |-> s.document_id, status |-> "completed"]

\* client.post(url, json=payload): the endpoint is handed the payload.
Post(e, payload) == [e EXCEPT !.posted = @ \cup {payload}]

McpOutcomes(s, e) ==
  LET intake == s.intake_result # Null
      vision == s.vision_result # Null
      classification == s.classification_result # Null
  IN UNION {
       LET e1 == Told(Told(Told(e, "db", d), "api", a), "fs", f)
           db_ok == (intake /\ d = "ok") \/ (classification /\ d = "ok")
           api_ok == classification /\ a = "ok"
           file_ok == vision \/ classification
       IN IF file_ok /\ f = "raises"
          THEN {Outcome(Raise, e1)}
          ELSE {Outcome(McpReturn(s, db_ok, file_ok, api_ok, h = "sent"),
                        IF h = "no_url" THEN Told(e1, "hook", h)
                        ELSE Post(Told(e1, "hook", h), Payload(s)))
                : h \in Ans(e1, "hook")}
       : <<d, a, f>> \in Ask(e, "db", intake \/ classification)
                         \X Ask(e, "api", classification)
                         \X Ask(e, "fs", vision \/ classification)}

\* ----------------------------------------------------------- SummaryAgent
SummaryOutcomes(s, e) ==
  {Outcome([summary_result |->
              [financial_summary |->
                 IF m = "ok" THEN "summary" ELSE "Summary unavailable",
               steps_completed |-> Len(s.messages)],
            current_step |-> "end",
            status |-> "completed",
            messages |-> Append(s.messages, "Summary done")],
           Told(e, "summary_llm", m))
   : m \in Ans(e, "summary_llm")}

\* agent.process(state) of the agent of a stage.
Process(stage, s, e) ==
  CASE stage = "intake" -> IntakeOutcomes(s, e)
    [] stage = "vision" -> VisionOutcomes(s, e)
    [] stage = "classification" -> ClassificationOutcomes(s, e)
    [] stage = "mcp" -> McpOutcomes(s, e)
    [] OTHER -> SummaryOutcomes(s, e)


\* ------------------------------------------------------------ the two engines
GraphNodes == {"intake", "vision", "classification", "mcp"}

SyncStages == {"intake", "vision", "classification", "mcp", "summary"}

\* AfterIntake with the requires_vision test dropped.
AfterIntake_NoFlag(d) ==
  IF Get(d, "status", None) = "failed"
  THEN "classification"
  ELSE IF Get(d, "intake_result", Null) # Null THEN "vision" ELSE "classification"

\* _after_intake: the conditional edge out of the intake node.
AfterIntake(d) ==
  IF Get(d, "status", None) = "failed"
  THEN "classification"
  ELSE LET ir == Get(d, "intake_result", Null) IN
       IF ir # Null /\ ir.requires_vision THEN "vision" ELSE "classification"

\* GraphNext with the edge out of classification leading back to intake.
GraphNext_BackEdge(node, d) ==
  CASE node = "intake" -> AfterIntake(d)
    [] node = "vision" -> "classification"
    [] node = "classification" -> "intake"
    [] OTHER -> "done"

\* create_graph: the edges; END is the position "done".
GraphNext(node, d) ==
  CASE node = "intake" -> AfterIntake(d)
    [] node = "vision" -> "classification"
    [] node = "classification" -> "mcp"
    [] OTHER -> "done"

\* The node functions _intake, _vision, _classification, _mcp: the update
\* dict a node hands back to the graph for the agent's update up.
NodeUpdates(d, up) == ToUpdates(Merge(ToWorkflow(d), up))

\* SyncNext without the Summary stage.
SyncNext_NoSummary(stage, s) ==
  CASE stage = "intake" ->
         IF s.status = "failed" THEN "done"
         ELSE IF s.current_step = "vision" THEN "vision" ELSE "classification"
    [] stage = "vision" ->
         IF s.status = "failed" THEN "done" ELSE "classification"
    [] stage = "classification" -> "mcp"
    [] OTHER -> "done"

\* SyncNext without the early return after a failed Vision.
SyncNext_NoVisionReturn(stage, s) ==
  CASE stage = "intake" ->
         IF s.status = "failed" THEN "done"
         ELSE IF s.current_step = "vision" THEN "vision" ELSE "classification"
    [] stage = "vision" -> "classification"
    [] stage = "classification" -> "mcp"
    [] stage = "mcp" -> "summary"
    [] OTHER -> "done"

\* run_workflow_sync._run: where the runner goes after a stage.
SyncNext(stage, s) ==
  CASE stage = "intake" ->
         IF s.status = "failed" THEN "done"
         ELSE IF s.current_step = "vision" THEN "vision" ELSE "classification"
    [] stage = "vision" ->
         IF s.status = "failed" THEN "done" ELSE "classification"
    [] stage = "classification" -> "mcp"
    [] stage = "mcp" -> "summary"
    [] OTHER -> "done"

Inputs ==
  [document_type : DocumentType, file_path : FilePaths, raw_content : RawContents]

\* run_workflow is called directly, not through an HTTP entrypoint.
NoRequest == [phase |-> "none"]

\* No classifier call and no embedding cache are under observation.
NoClassifier == [phase |-> "none"]

NoCache == [phase |-> "none"]

\* The message of the exception that comes out of stage n: the vector search
\* failing, the model client that cannot be built, the snapshot write failing.
ExceptionOf(n, e) ==
  CASE n = "classification" /\ e.search = "raises" -> "vector search failed"
    [] n = "mcp" -> "cannot write snapshot"
    [] OTHER -> "no model client"

\* _log calling on_step twice.
Log_Twice(c, step, status) == Append(Append(c, <<step, status>>), <<step, status>>)

\* _log: on_step(step, status, data), appended to the calls made so far.
Log(c, step, status) == Append(c, <<step, status>>)

\* Two runs side by side on one input. The vector index takes its writes:
\* ClassificationAgent.process discards what add returns, so no run can tell
\* a failed write from a good one; RunnerSpec leaves the answer open.
Init ==
  /\ input \in Inputs
  /\ env = Told(EnvInit, "index", "ok")
  /\ st = [graph |-> GraphState(input), sync |-> WorkflowState(input)]
  /\ pc = [r \in Runs |-> "intake"]
  /\ running = [r \in Runs |-> FALSE]
  /\ trace = [r \in Runs |-> <<>>]
  /\ exc = [r \in Runs |-> None]
  /\ calls = <<>>
  /\ caller = "blocked"
  /\ http = NoRequest
  /\ cls = NoClassifier
  /\ ecache = NoCache

Started(r, n) ==
  /\ pc[r] = n
  /\ ~running[r]
  /\ running' = [running EXCEPT ![r] = TRUE]
  /\ trace' = [trace EXCEPT ![r] = Append(@, <<n, "start">>)]
  /\ UNCHANGED <<input, env, st, pc, exc, caller, aux>>

\* The graph engine invokes node n.
GraphBegin(n) == Started("graph", n) /\ UNCHANGED calls

\* Node n returns its updates; the engine merges them and follows the edge.
GraphEnd(n) ==
  /\ pc["graph"] = n
  /\ running["graph"]
  /\ \E o \in Process(n, ToWorkflow(st["graph"]), env) :
       /\ o.up # Raise
       /\ LET d == Merge(st["graph"], NodeUpdates(st["graph"], o.up)) IN
          /\ st' = [st EXCEPT !["graph"] = d]
          /\ pc' = [pc EXCEPT !["graph"] = GraphNext(n, d)]
       /\ env' = o.env
  /\ running' = [running EXCEPT !["graph"] = FALSE]
  /\ trace' = [trace EXCEPT !["graph"] = Append(@, <<n, "return">>)]
  /\ UNCHANGED <<input, exc, calls, caller, aux>>

\* Node n raises: ainvoke, and so run_workflow, raises.
GraphRaise(n) ==
  /\ pc["graph"] = n
  /\ running["graph"]
  /\ \E o \in Process(n, ToWorkflow(st["graph"]), env) :
       /\ o.up = Raise
       /\ env' = o.env
       /\ exc' = [exc EXCEPT !["graph"] = ExceptionOf(n, o.env)]
  /\ pc' = [pc EXCEPT !["graph"] = "raised"]
  /\ running' = [running EXCEPT !["graph"] = FALSE]
  /\ trace' = [trace EXCEPT !["graph"] = Append(@, <<n, "raise">>)]
  /\ UNCHANGED <<input, st, calls, caller, aux>>

\* The runner logs (n, "running") and calls the agent of stage n.
SyncBegin(n) ==
  /\ caller # "calling"
  /\ Started("sync", n)
  /\ calls' = Log(calls, n, "running")

\* The agent returns; the runner merges, logs (n, "done") and goes on.
SyncEnd(n) ==
  /\ pc["sync"] = n
  /\ running["sync"]
  /\ \E o \in Process(n, st["sync"], env) :
       /\ o.up # Raise
       /\ LET s == Merge(st["sync"], o.up) IN
          /\ st' = [st EXCEPT !["sync"] = s]
          /\ pc' = [pc EXCEPT !["sync"] = SyncNext(n, s)]
       /\ env' = o.env
  /\ running' = [running EXCEPT !["sync"] = FALSE]
  /\ trace' = [trace EXCEPT !["sync"] = Append(@, <<n, "return">>)]
  /\ calls' = Log(calls, n, "done")
  /\ UNCHANGED <<input, exc, caller, aux>>

\* The agent raises: future.result() re-raises in the caller.
SyncRaise(n) ==
  /\ pc["sync"] = n
  /\ running["sync"]
  /\ \E o \in Process(n, st["sync"], env) :
       /\ o.up = Raise
       /\ env' = o.env
       /\ exc' = [exc EXCEPT !["sync"] = ExceptionOf(n, o.env)]
  /\ pc' = [pc EXCEPT !["sync"] = "raised"]
  /\ running' = [running EXCEPT !["sync"] = FALSE]
  /\ trace' = [trace EXCEPT !["sync"] = Append(@, <<n, "raise">>)]
  /\ UNCHANGED <<input, st, calls, caller, aux>>

Next ==
  \/ \E n \in GraphNodes : GraphBegin(n)
  \/ \E n \in GraphNodes : GraphEnd(n)
  \/ \E n \in GraphNodes : GraphRaise(n)
  \/ \E n \in SyncStages : SyncBegin(n)
  \/ \E n \in SyncStages : SyncEnd(n)
  \/ \E n \in SyncStages : SyncRaise(n)

Spec == Init /\ [][Next]_vars

\* Each run is a task the event loop (or the worker thread) keeps scheduling
\* until it has returned or raised.
FairSpec == Spec /\ WF_vars(Next)

TypeOK ==
  /\ input \in Inputs
  /\ \A r \in Runs : pc[r] \in SyncStages \cup {"done", "raised", "parked"}
  /\ \A r \in Runs : st[r].status \in {"pending", "in_progress", "completed", "failed"}

\* ================================================================ properties
Done(r) == pc[r] = "done"

Slot(r, k) == Get(st[r], k, Null)

AllSlots ==
  {"intake_result", "vision_result", "classification_result", "mcp_result",
   "summary_result"}

\* The stage that is designated to fill a result slot.
StageOf(k) ==
  CASE k = "intake_result" -> "intake"
    [] k = "vision_result" -> "vision"
    [] k = "classification_result" -> "classification"
    [] k = "mcp_result" -> "mcp"
    [] OTHER -> "summary"

Rank(stage) ==
  CASE stage = "intake" -> 1
    [] stage = "vision" -> 2
    [] stage = "classification" -> 3
    [] stage = "mcp" -> 4
    [] OTHER -> 5

\* Starts and ends alternate, an end belongs to the stage started just
\* before it, and the started stages are strictly increasing in pipeline order.
OneAtATimeInOrder(t) ==
  /\ \A i \in 1..Len(t) : (i % 2 = 1) <=> (t[i][2] = "start")
  /\ \A i \in 1..Len(t) : i % 2 = 0 => t[i][1] = t[i - 1][1]
  /\ \A i, j \in 1..Len(t) :
       (i < j /\ t[i][2] = "start" /\ t[j][2] = "start")
         => Rank(t[i][1]) < Rank(t[j][1])
  /\ Len(t) > 0 => t[1][1] = "intake"

\* C1: in both engines the stages of a run execute one at a time, in the
\* order intake, vision, classification, mcp, summary: no stage starts before
\* the stage started before it has ended, none runs twice, and none runs
\* after a later-ordered one.
C1_StagesSequentialInOrder == \A r \in Runs : OneAtATimeInOrder(trace[r])

\* Both runs are over and went through every stage they have.
C1_Witness ==
  /\ Done("graph") /\ Len(trace["graph"]) = 8
  /\ Done("sync") /\ Len(trace["sync"]) = 10

\* C2: right after the intake node has returned, the graph engine is at
\* classification when status is failed, else at vision when
\* intake_result.requires_vision is true, else (false or no intake_result)
\* at classification.
C2_BranchRule ==
  Len(trace["graph"]) = 2 =>
    pc["graph"] =
      IF st["graph"].status = "failed" THEN "classification"
      ELSE IF st["graph"].intake_result = Null THEN "classification"
      ELSE IF st["graph"].intake_result.requires_vision THEN "vision"
      ELSE "classification"

\* Intake asked for vision and the graph engine stands at the vision node.
C2_Witness ==
  /\ Len(trace["graph"]) = 2
  /\ st["graph"].intake_result # Null
  /\ st["graph"].intake_result.requires_vision
  /\ pc["graph"] = "vision"

\* C3: once the status of a run is failed, it is failed in every later state
\* of that run.
C3_FailedIsAbsorbing ==
  [][\A r \in Runs : st[r].status = "failed" => st'[r].status = "failed"]_vars

\* Only Intake (missing file) and Vision (no content) set the error field, and
\* nothing resets it: a run has met a fatal condition iff error is set.
Fatal(r) == st[r].error # None

\* C4: when Intake or Vision returns status failed, no later stage of that
\* run executes and the run returns with status failed.
C4_FatalAbortsRun ==
  \A r \in Runs :
    Fatal(r) =>
      /\ trace[r][Len(trace[r])] \in {<<"intake", "return">>, <<"vision", "return">>}
      /\ Done(r)
      /\ st[r].status = "failed"

\* C4 as amended: the sequential runner returns right after the failed stage
\* with status failed; the graph engine goes on to classification and mcp,
\* and when it returns both of their results are set.
C4_FatalAbortsSyncRun ==
  /\ Fatal("sync") =>
       /\ trace["sync"][Len(trace["sync"])]
            \in {<<"intake", "return">>, <<"vision", "return">>}
       /\ Done("sync")
       /\ st["sync"].status = "failed"
  /\ Fatal("graph") =>
       /\ pc["graph"] \in {"classification", "mcp", "done", "raised"}
       /\ Done("graph") =>
            /\ st["graph"].classification_result # Null
            /\ st["graph"].mcp_result # Null

\* Vision failed in both runs: the runner has returned, the graph engine has
\* gone on through classification and mcp.
C4_Witness ==
  /\ st["sync"].error = "No content" /\ Done("sync")
  /\ st["graph"].error = "No content" /\ Done("graph")

NoInput == input.file_path = None /\ input.raw_content = None

\* C5: a run given neither inline content nor a file reference returns a
\* record with status failed, an error message, and every result slot null.
C5_NoInputFails ==
  \A r \in Runs :
    (NoInput /\ Done(r)) =>
      /\ st[r].status = "failed"
      /\ Truthy(st[r].error)
      /\ \A k \in AllSlots : Slot(r, k) = Null

\* Inline text with document type text: the run that meets no fatal condition.
InlineText == input.document_type = "text" /\ Truthy(input.raw_content)

\* C6: a run that meets no fatal condition, e.g. inline text of type text,
\* returns a record with status completed, in each engine.
C6_ReturnsCompleted ==
  \A r \in Runs : (InlineText /\ Done(r)) => st[r].status = "completed"

Over(r) == pc[r] \in {"done", "raised"}

\* C6 as amended: every run comes to an end, returning or raising; a run of
\* the sequential runner that met no fatal condition returns with status
\* completed, and one of the graph engine, which has no Summary stage,
\* returns with status in_progress.
C6_ReturnsCompletedInSync ==
  <>[](/\ \A r \in Runs : Over(r)
       /\ (Done("sync") /\ ~Fatal("sync")) => st["sync"].status = "completed"
       /\ (Done("graph") /\ ~Fatal("graph")) => st["graph"].status = "in_progress")

\* Both engines have returned for inline text.
C6_Witness ==
  /\ InlineText
  /\ Done("sync") /\ st["sync"].status = "completed"
  /\ Done("graph") /\ st["graph"].status = "in_progress"

\* C7: status completed implies that summary_result is set, and when the
\* Summary stage has returned, status is completed and current_step is end,
\* also when its model call failed.
C7_CompletedOnlyBySummary ==
  \A r \in Runs :
    /\ st[r].status = "completed" => Slot(r, "summary_result") # Null
    /\ (Len(trace[r]) > 0 /\ trace[r][Len(trace[r])] = <<"summary", "return">>)
         => (st[r].status = "completed" /\ st[r].current_step = "end")

\* Summary has returned although its model call failed.
C7_Witness ==
  /\ Done("sync")
  /\ env.summary_llm = "fails"
  /\ st["sync"].summary_result # Null
  /\ st["sync"].status = "completed"

\* The events of the stages both engines have.
Shared(t) == SelectSeq(t, LAMBDA ev : ev[1] # "summary")

SharedFields ==
  {"status", "error", "current_step", "intake_result", "vision_result",
   "classification_result", "mcp_result"}

Agree == \A k \in SharedFields : st["graph"][k] = st["sync"][k]

\* C8: the sequential runner executes the same stages from intake through
\* mcp as the graph engine, and after each of them the two records agree on
\* status, error, current_step and the result slots.
C8_RunnerEquivalentToGraph ==
  /\ (Over("graph") /\ Over("sync")) => Shared(trace["sync"]) = trace["graph"]
  /\ trace["sync"] = trace["graph"] => Agree

\* C8 as amended: as long as the two runs have gone through the same stages
\* their records agree; they go through the same stages unless Intake or
\* Vision returned status failed, in which case the runner has returned
\* and the graph engine has gone on from where the runner stopped.
C8_RunnerEquivalentUntilFatal ==
  /\ (Over("graph") /\ Over("sync") /\ ~Fatal("sync"))
       => Shared(trace["sync"]) = trace["graph"]
  /\ (Over("graph") /\ Over("sync") /\ Fatal("sync"))
       => /\ Len(trace["sync"]) < Len(trace["graph"])
          /\ SubSeq(trace["graph"], 1, Len(trace["sync"])) = trace["sync"]
  /\ trace["sync"] = trace["graph"] => Agree

\* Both engines are through mcp after a run with Vision and agree.
C8_Witness ==
  /\ st["graph"].vision_result # Null
  /\ st["graph"].mcp_result # Null
  /\ st["sync"].mcp_result # Null
  /\ trace["sync"] = trace["graph"]
  /\ Agree

\* C9: every result slot is null when the run starts, goes from null to a
\* value only while its own stage executes, and keeps that value from then on.
C9_SlotsWriteOnce ==
  /\ \A r \in Runs : \A k \in AllSlots : Slot(r, k) = Null
  /\ [][\A r \in Runs : \A k \in AllSlots :
          /\ Slot(r, k) # Null => Get(st'[r], k, Null) = Slot(r, k)
          /\ (Slot(r, k) = Null /\ Get(st'[r], k, Null) # Null)
               => (pc[r] = StageOf(k) /\ running[r])]_vars

\* The runner has returned with every slot set.
C9_Witness ==
  /\ Done("sync")
  /\ \A k \in AllSlots : Slot("sync", k) # Null

\* C10: when Vision fails for lack of content after a successful Intake, the
\* record returned carries the intake result, status failed and the error,
\* and vision_result is null.
C10_PartialResultsSurvive ==
  \A r \in Runs :
    (Done(r) /\ st[r].error = "No content") =>
      /\ st[r].intake_result # Null
      /\ st[r].intake_result.requires_vision
      /\ st[r].status = "failed"
      /\ st[r].vision_result = Null

\* C11: in every reachable state of either engine, error is set only if
\* status is failed.
C11_ErrorOnlyWhenFailed ==
  \A r \in Runs : st[r].error # None => st[r].status = "failed"

Messages(d) == Get(d, "messages", <<>>)

StrictExtension(before, after) ==
  /\ Len(before) < Len(after)
  /\ SubSeq(after, 1, Len(before)) = before

Returned(r, stage) ==
  /\ Len(trace'[r]) = Len(trace[r]) + 1
  /\ trace'[r][Len(trace'[r])] = <<stage, "return">>

\* C12: every stage that executes, whether it succeeds or fails, leaves a
\* messages list that is a strict extension of the list it found; no step
\* removes, reorders or rewrites an entry.
C12_MessagesGrowWithEveryStage ==
  [][\A r \in Runs :
       /\ (\E n \in SyncStages : Returned(r, n))
            => StrictExtension(Messages(st[r]), Messages(st'[r]))
       /\ Len(Messages(st[r])) <= Len(Messages(st'[r]))
       /\ SubSeq(Messages(st'[r]), 1, Len(Messages(st[r]))) = Messages(st[r])]_vars

Ended(r, stage) ==
  \E i \in 1..Len(trace[r]) :
    trace[r][i] \in {<<stage, "return">>, <<stage, "raise">>}

\* C15: whatever combination of its side effects fails, MCPAgent.process
\* raises no exception, attempts every other applicable side effect (the
\* webhook is always applicable) and returns an Integration Result.
C15_IntegrationNeverFails ==
  \A r \in Runs :
    Ended(r, "mcp") =>
      /\ trace[r][Len(trace[r])] # <<"mcp", "raise">>
      /\ env.hook # Unset
      /\ st[r].mcp_result # Null

\* C16: with every relational-store write failing and no webhook endpoint
\* configured, the Integration stage returns a result with
\* database_recorded and notification_sent false, and sets the status it
\* sets when those side effects succeed.
C16_IntegrationResilience ==
  [][\A r \in Runs :
       (Returned(r, "mcp") /\ env'.db = "fail" /\ env'.hook = "no_url") =>
         /\ st'[r].mcp_result # Null
         /\ ~st'[r].mcp_result.database_recorded
         /\ ~st'[r].mcp_result.notification_sent
         /\ st'[r].status
              = McpReturn(ToWorkflow(st[r]), TRUE, TRUE, TRUE, TRUE).status]_vars

\* Integration has returned in the runner with the store failing and no
\* webhook endpoint, and the run went on to complete.
C16_Witness ==
  /\ env.db = "fail" /\ env.hook = "no_url"
  /\ st["sync"].mcp_result # Null
  /\ ~st["sync"].mcp_result.database_recorded
  /\ ~st["sync"].mcp_result.notification_sent
  /\ Done("sync") /\ st["sync"].status = "completed"

\* ------------------------------------------- run_workflow_sync and its caller
\* The caller of run_workflow_sync has not yet submitted _run to the pool.
RunnerInit ==
  /\ input \in Inputs
  /\ env = EnvInit
  /\ st = [graph |-> GraphState(input), sync |-> WorkflowState(input)]
  /\ pc = [graph |-> "parked", sync |-> "intake"]
  /\ running = [r \in Runs |-> FALSE]
  /\ trace = [r \in Runs |-> <<>>]
  /\ exc = [r \in Runs |-> None]
  /\ calls = <<>>
  /\ caller = "calling"
  /\ http = NoRequest
  /\ cls = NoClassifier
  /\ ecache = NoCache

\* pool.submit(asyncio.run, _run()): the worker may start, the caller goes on
\* to future.result().
Submit ==
  /\ caller = "calling"
  /\ caller' = "blocked"
  /\ UNCHANGED <<input, env, st, pc, running, trace, exc, calls, aux>>

\* A future that is done whatever the worker is doing.
FutureDone_NoWait(p) == p \in {"intake", "vision", "classification", "mcp", "summary", "done", "raised"}

\* The future of _run is done once the coroutine has returned or raised.
FutureDone(p) == p \in {"done", "raised"}

\* future.result() hands the caller what the worker ended with: the final
\* record, or the exception, which it re-raises.
FutureResult ==
  /\ caller = "blocked"
  /\ FutureDone(pc["sync"])
  /\ caller' = IF pc["sync"] = "raised" THEN "raised" ELSE "returned"
  /\ UNCHANGED <<input, env, st, pc, running, trace, exc, calls, aux>>

RunnerNext ==
  \/ Submit
  \/ \E n \in SyncStages : SyncBegin(n)
  \/ \E n \in SyncStages : SyncEnd(n)
  \/ \E n \in SyncStages : SyncRaise(n)
  \/ FutureResult

RunnerSpec == RunnerInit /\ [][RunnerNext]_vars

Count(seq, x) == Cardinality({i \in 1..Len(seq) : seq[i] = x})

\* Every "running" event is followed at once by the "done" event of its
\* stage unless it is the last event so far, every "done" event follows the
\* "running" event of its stage, and stages come in pipeline order.
Paired(c) ==
  \A i \in 1..Len(c) :
    /\ c[i][1] \in SyncStages /\ c[i][2] \in {"running", "done"}
    /\ c[i][2] = "running" => (i = Len(c) \/ c[i + 1] = <<c[i][1], "done">>)
    /\ c[i][2] = "done" => (i > 1 /\ c[i - 1] = <<c[i][1], "running">>)
    /\ \A j \in 1..Len(c) : (i < j /\ c[i][1] # c[j][1]) => Rank(c[i][1]) < Rank(c[j][1])

\* C13: for every stage the runner executes, on_step is called exactly once
\* with (stage, "running") immediately before it and exactly once with
\* (stage, "done") immediately after it, in pipeline order, and no event of
\* another stage comes between the two.
C13_CallbackProtocol ==
  /\ Paired(calls)
  /\ \A n \in SyncStages :
       /\ Count(calls, <<n, "running">>) = Count(trace["sync"], <<n, "start">>)
       /\ Count(calls, <<n, "running">>) <= 1
       /\ (Count(trace["sync"], <<n, "start">>) = 1 /\ ~(pc["sync"] = n /\ running["sync"]))
            => Count(calls, <<n, "done">>) = 1

\* C13 as amended: every stage the runner starts gets exactly one "running"
\* event immediately before it; a stage that returns gets exactly one "done"
\* event immediately after it and a stage that raises gets none, its
\* "running" event being the last event of the run; events are in pipeline
\* order with no event of another stage between a stage's two events.
C13_CallbackProtocolOfReturningStages ==
  /\ Paired(calls)
  /\ \A n \in SyncStages :
       /\ Count(calls, <<n, "running">>) = Count(trace["sync"], <<n, "start">>)
       /\ Count(calls, <<n, "done">>) = Count(trace["sync"], <<n, "return">>)
       /\ Count(calls, <<n, "running">>) <= 1
       /\ Count(calls, <<n, "done">>) <= 1
       /\ Count(trace["sync"], <<n, "raise">>) = 1
            => /\ calls[Len(calls)] = <<n, "running">>
               /\ pc["sync"] = "raised"

\* Intake, Vision and Classification have returned with their two events
\* each, and Integration has raised after its "running" event.
C13_Witness ==
  /\ pc["sync"] = "raised"
  /\ Len(calls) = 7
  /\ calls[6] = <<"classification", "done">>
  /\ calls[7] = <<"mcp", "running">>

\* C14: run_workflow_sync returns or raises only after the worker has ended
\* the stage sequence and made its last callback, no callback is made after
\* the call has returned, and callbacks are made one at a time by the one
\* stage that is starting or ending.
C14_CallerBlocksUntilWorkerEnds ==
  /\ [](caller \in {"returned", "raised"}
         => /\ Over("sync") /\ ~running["sync"]
            /\ caller = "raised" <=> pc["sync"] = "raised")
  /\ [][/\ caller \in {"returned", "raised"}
            => (calls' = calls /\ st'["sync"] = st["sync"] /\ trace'["sync"] = trace["sync"])
        /\ Len(calls') <= Len(calls) + 1
        /\ calls' # calls
            => \/ ~running["sync"] /\ calls' = Append(calls, <<pc["sync"], "running">>)
               \/ running["sync"] /\ calls' = Append(calls, <<pc["sync"], "done">>)]_vars

\* The call has returned the completed record after all five stages.
C14_Witness ==
  /\ caller = "returned"
  /\ st["sync"].status = "completed"
  /\ Len(calls) = 10

\* --------------------------------------------- ClassificationAgent._classify
\* Strings the model answers with are sequences of characters; JSON values
\* carry their type.
JStr(chars) == [t |-> "str", v |-> chars]

JNum(chars) == [t |-> "num", v |-> chars]

JNull == [t |-> "null"]

JList == [t |-> "list"]

Missing == [t |-> "missing"]

TransactionCategory == {"revenue", "expense", "asset", "liability", "equity", "unknown"}

\* The value of each member of TransactionCategory, spelled out.
Value ==
  [revenue |-> <<"r", "e", "v", "e", "n", "u", "e">>,
   expense |-> <<"e", "x", "p", "e", "n", "s", "e">>,
   asset |-> <<"a", "s", "s", "e", "t">>,
   liability |-> <<"l", "i", "a", "b", "i", "l", "i", "t", "y">>,
   equity |-> <<"e", "q", "u", "i", "t", "y">>,
   unknown |-> <<"u", "n", "k", "n", "o", "w", "n">>]

UpperCase == <<"A", "B", "C", "D", "E", "F", "G", "H", "I", "J", "K", "L", "M", "N", "O", "P", "Q", "R", "S", "T", "U", "V", "W", "X", "Y", "Z">>

LowerCase == <<"a", "b", "c", "d", "e", "f", "g", "h", "i", "j", "k", "l", "m", "n", "o", "p", "q", "r", "s", "t", "u", "v", "w", "x", "y", "z">>

\* str.lower() keeping every character as it is.
Lower_Identity(chars) == chars

\* str.lower()
Lower(chars) ==
  [i \in 1..Len(chars) |->
     IF \E k \in 1..Len(UpperCase) : UpperCase[k] = chars[i]
     THEN LowerCase[CHOOSE k \in 1..Len(UpperCase) : UpperCase[k] = chars[i]]
     ELSE chars[i]]

Digits == {"0", "1", "2", "3", "4", "5", "6", "7", "8", "9"}

\* The end of the run of digits of chars that starts at i (i - 1 if empty).
RECURSIVE DigitsEnd(_, _)
DigitsEnd(chars, i) ==
  IF i <= Len(chars) /\ chars[i] \in Digits THEN DigitsEnd(chars, i + 1) ELSE i - 1

\* re.search(r"[\d,]+\.?\d*", text) on a text without commas: the first run
\* of digits, a dot after it and the digits after the dot; None without digit.
Search(chars) ==
  IF \A i \in 1..Len(chars) : chars[i] \notin Digits THEN None
  ELSE LET i == CHOOSE k \in 1..Len(chars) :
                  /\ chars[k] \in Digits
                  /\ \A j \in 1..(k - 1) : chars[j] \notin Digits
           j == DigitsEnd(chars, i)
       IN IF j < Len(chars) /\ chars[j + 1] = "."
          THEN SubSeq(chars, i, DigitsEnd(chars, j + 2))
          ELSE SubSeq(chars, i, j)

\* A text float() accepts: digits with at most one dot among them.
IsNumber(chars) ==
  /\ \E i \in 1..Len(chars) : chars[i] \in Digits
  /\ \A i \in 1..Len(chars) : chars[i] \in Digits \cup {"."}
  /\ Cardinality({i \in 1..Len(chars) : chars[i] = "."}) <= 1

\* data.get(key): None for a key that is not there.
DictGet(v) == IF v = Missing THEN JNull ELSE v

\* Python truth of a JSON value.
PyTruthy(v) ==
  CASE v.t = "null" -> FALSE
    [] v.t = "str" -> v.v # <<>>
    [] v.t = "num" -> v.v # <<"0">>
    [] OTHER -> TRUE

\* What the model call and json.loads leave in data: the parsed value, or
\* the fallback object when either of them raised.
Fallback ==
  [kind |-> "json", t |-> "object", category |-> JStr(Value["unknown"]),
   amount |-> JNull, confidence |-> JNum(<<"0">>), reasoning |-> "parse err"]

Data(resp) == IF resp.kind \in {"call_fails", "not_json"} THEN Fallback ELSE resp

\* next((c for c in TransactionCategory if c.value == cat_val), UNKNOWN)
CategoryOf(cat_val) ==
  IF \E c \in TransactionCategory : Value[c] = cat_val
  THEN CHOOSE c \in TransactionCategory : Value[c] = cat_val
  ELSE "unknown"

\* The amount of the result: the number found in a text, float() of any other
\* value where it is defined, None otherwise.
AmountOf(amt) ==
  CASE amt.t = "null" -> None
    [] amt.t = "str" ->
         LET m == Search(SelectSeq(amt.v, LAMBDA c : c # ","))
         IN IF m = None THEN None ELSE JNum(m)
    [] amt.t = "num" -> amt
    [] OTHER -> None

\* _classify from the model's response on: the ClassificationResult, or Raise
\* where a statement outside the try block raises.
ClassifyResponse(resp) ==
  LET data == Data(resp)
  IN IF data.t # "object" THEN Raise
     ELSE LET c == DictGet(data.category)
              label == IF PyTruthy(c) THEN c ELSE JStr(Value["unknown"])
              conf == IF data.confidence = Missing THEN JNum(<<"0", ".", "5">>)
                      ELSE data.confidence
          IN IF label.t # "str" THEN Raise
             ELSE IF ~(conf.t = "num" \/ (conf.t = "str" /\ IsNumber(conf.v))) THEN Raise
             ELSE [category |-> CategoryOf(Lower(label.v)),
                   amount |-> AmountOf(DictGet(data.amount)),
                   confidence |-> JNum(conf.v),
                   reasoning |-> IF data = Fallback THEN "parse err" ELSE "model",
                   embeddings_added |-> FALSE]

\* The labels, confidences and amounts a model may answer with.
Labels ==
  {JStr(Value[c]) : c \in TransactionCategory}
    \cup {JStr(<<"E", "x", "p", "e", "n", "s", "e">>), JStr(<<"R", "E", "V", "E", "N", "U", "E">>), JStr(<<"a", "s", "s", "e", "t", " ">>), JStr(<<"a", "s", "s", "e", "t", "s">>),
          JStr(<<"o", "t", "h", "e", "r">>), JStr(<<>>), JNum(<<"7">>), JNull, JList, Missing}

Confidences ==
  {JNum(<<"0", ".", "9">>), JNum(<<"0">>), JStr(<<"0", ".", "8">>),
   JStr(<<"h", "i", "g", "h">>), JNull, JList, Missing}

Amounts ==
  {JNum(<<"1", "5", "0">>), JStr(<<"$", "1", ",", "2", "3", "4", ".", "5">>),
   JStr(<<"n", "/", "a">>), JNull, JList, Missing}

Responses ==
  {[kind |-> k] : k \in {"call_fails", "not_json"}}
    \cup {[kind |-> "json", t |-> t] : t \in {"list", "str", "num", "null"}}
    \cup {[kind |-> "json", t |-> "object", category |-> c, amount |-> a,
           confidence |-> f, reasoning |-> "model"]
          : c \in Labels, a \in Amounts, f \in Confidences}

\* The model client is built and is about to answer with some response.
ClassifierInit ==
  /\ input = [document_type |-> "text", file_path |-> None, raw_content |-> "inline text"]
  /\ env = EnvInit
  /\ st = [graph |-> GraphState(input), sync |-> WorkflowState(input)]
  /\ pc = [r \in Runs |-> "parked"]
  /\ running = [r \in Runs |-> FALSE]
  /\ trace = [r \in Runs |-> <<>>]
  /\ exc = [r \in Runs |-> None]
  /\ calls = <<>>
  /\ caller = "blocked"
  /\ http = NoRequest
  /\ cls \in {[phase |-> "called", response |-> r] : r \in Responses}
  /\ ecache = NoCache

ClassifyReturn ==
  /\ cls.phase = "called"
  /\ ClassifyResponse(cls.response) # Raise
  /\ cls' = [phase |-> "returned", response |-> cls.response,
             result |-> ClassifyResponse(cls.response)]
  /\ UNCHANGED <<input, env, st, pc, running, trace, exc, calls, caller, http, ecache>>

ClassifyRaise ==
  /\ cls.phase = "called"
  /\ ClassifyResponse(cls.response) = Raise
  /\ cls' = [phase |-> "raised", response |-> cls.response]
  /\ UNCHANGED <<input, env, st, pc, running, trace, exc, calls, caller, http, ecache>>

ClassifierNext == ClassifyReturn \/ ClassifyRaise

ClassifierSpec == ClassifierInit /\ [][ClassifierNext]_vars

\* A response the classifier cannot use: the call failed, the answer is not
\* JSON or not an object, its category is not a string or its confidence
\* not a number.
Unusable(resp) ==
  \/ resp.kind \in {"call_fails", "not_json"}
  \/ resp.t # "object"
  \/ resp.category.t \in {"num", "list"}
  \/ resp.confidence.t \in {"str", "null", "list"} /\ ~(resp.confidence.t = "str" /\ IsNumber(resp.confidence.v))

\* C17: Classification degrades instead of failing: whatever the model call
\* and its response do, _classify raises no exception and returns a result,
\* with category unknown and confidence 0 when the response is unusable.
C17_ClassificationDegrades ==
  /\ cls.phase # "raised"
  /\ (cls.phase = "returned" /\ Unusable(cls.response))
       => /\ cls.result.category = "unknown"
          /\ cls.result.confidence = JNum(<<"0">>)

\* Equality of two texts up to the case of their letters.
EqualIgnoringCase(a, b) ==
  /\ Len(a) = Len(b)
  /\ \A i \in 1..Len(a) :
       \/ a[i] = b[i]
       \/ \E k \in 1..Len(UpperCase) :
            {a[i], b[i]} = {UpperCase[k], LowerCase[k]}

\* C18: the category of every result is one of the six values; it is the
\* value the model's label equals up to case, and unknown for a label that
\* equals none, for a missing label and after a parse failure.
C18_CategoryClosure ==
  cls.phase = "returned" =>
    LET label == Data(cls.response).category
    IN /\ cls.result.category \in TransactionCategory
       /\ \A c \in TransactionCategory :
            (label.t = "str" /\ EqualIgnoringCase(label.v, Value[c]))
              => cls.result.category = c
       /\ (\A c \in TransactionCategory :
             ~(label.t = "str" /\ EqualIgnoringCase(label.v, Value[c])))
              => cls.result.category = "unknown"

\* The label REVENUE has given revenue, and a result exists for the label
\* assets, which equals no value.
C18_Witness ==
  /\ cls.phase = "returned"
  /\ cls.response.kind = "json"
  /\ cls.response.category = JStr(<<"R", "E", "V", "E", "N", "U", "E">>)
  /\ cls.result.category = "revenue"

\* ------------------------------------------------- the HTTP entrypoints
\* The requests: submit takes any document type with content and file_path
\* as the client gives them; upload stores the file itself and passes the
\* stored path and no inline content, with the type of the file's suffix.
Requests ==
  {[entry |-> "submit", input |-> in] : in \in Inputs}
    \cup {[entry |-> "upload",
           input |-> [document_type |-> t, file_path |-> "doc.bin", raw_content |-> None]]
          : t \in DocumentType}

ApiInit ==
  /\ \E q \in Requests :
       /\ input = q.input
       /\ http = [phase |-> "received", entry |-> q.entry]
  /\ env = EnvInit
  /\ st = [graph |-> GraphState(input), sync |-> WorkflowState(input)]
  /\ pc = [r \in Runs |-> "parked"]
  /\ running = [r \in Runs |-> FALSE]
  /\ trace = [r \in Runs |-> <<>>]
  /\ exc = [r \in Runs |-> None]
  /\ calls = <<>>
  /\ caller = "blocked"
  /\ cls = NoClassifier
  /\ ecache = NoCache

\* HTTPException(400, ...) raised before run_workflow is called.
Rejected(detail) == [phase |-> "rejected", code |-> "400", detail |-> detail]

\* submit up to its call of run_workflow: the two checks of the request.
SubmitCheck ==
  /\ http.phase = "received" /\ http.entry = "submit"
  /\ IF ~Truthy(input.raw_content) /\ ~Truthy(input.file_path)
     THEN /\ http' = Rejected("content or file_path required")
          /\ UNCHANGED <<env, pc>>
     ELSE IF Truthy(input.file_path)
     THEN \E x \in Ans(env, "exists") :
            /\ env' = Told(env, "exists", x)
            /\ IF x = "no"
               THEN http' = Rejected("File not found") /\ UNCHANGED pc
               ELSE /\ http' = [phase |-> "running", entry |-> "submit"]
                    /\ pc' = [pc EXCEPT !["graph"] = "intake"]
     ELSE /\ http' = [phase |-> "running", entry |-> "submit"]
          /\ pc' = [pc EXCEPT !["graph"] = "intake"]
          /\ UNCHANGED env
  /\ UNCHANGED <<input, st, running, trace, exc, calls, caller, cls, ecache>>

\* upload up to its call of run_workflow: the file is stored, which is not
\* guarded and may raise.
UploadStore ==
  /\ http.phase = "received" /\ http.entry = "upload"
  /\ \E stored \in BOOLEAN :
       IF stored
       THEN /\ http' = [phase |-> "running", entry |-> "upload"]
            /\ pc' = [pc EXCEPT !["graph"] = "intake"]
       ELSE /\ http' = [phase |-> "propagated", error |-> "cannot store upload"]
            /\ UNCHANGED pc
  /\ UNCHANGED <<input, env, st, running, trace, exc, calls, caller, cls, ecache>>

\* _state_to_response
StateToResponse(d) ==
  [status |-> Get(d, "status", "failed"),
   intake_result |-> Get(d, "intake_result", Null),
   vision_result |-> Get(d, "vision_result", Null),
   classification_result |-> Get(d, "classification_result", Null),
   mcp_result |-> Get(d, "mcp_result", Null),
   error |-> Get(d, "error", None)]

\* run_workflow has returned its record: the entrypoint answers with it.
Respond ==
  /\ http.phase = "running" /\ pc["graph"] = "done"
  /\ http' = [phase |-> "responded", response |-> StateToResponse(st["graph"])]
  /\ UNCHANGED <<input, env, st, pc, running, trace, exc, calls, caller, cls, ecache>>

\* An except clause that lets the exception go on.
Handle_Reraise(e) == [phase |-> "propagated", error |-> e]

\* except Exception as e: the response made of the exception.
Handle(e) ==
  [phase |-> "responded",
   response |-> [status |-> "failed", intake_result |-> Null, vision_result |-> Null,
                 classification_result |-> Null, mcp_result |-> Null, error |-> e]]

\* run_workflow has raised inside the try block of the entrypoint.
Catch ==
  /\ http.phase = "running" /\ pc["graph"] = "raised"
  /\ http' = Handle(exc["graph"])
  /\ UNCHANGED <<input, env, st, pc, running, trace, exc, calls, caller, cls, ecache>>

ApiNext ==
  \/ SubmitCheck
  \/ UploadStore
  \/ \E n \in GraphNodes : GraphBegin(n)
  \/ \E n \in GraphNodes : GraphEnd(n)
  \/ \E n \in GraphNodes : GraphRaise(n)
  \/ Respond
  \/ Catch

ApiSpec == ApiInit /\ [][ApiNext]_vars

\* C19: an exception that escapes run_workflow while submit or upload is
\* processing a request never leaves the entrypoint: the request is answered
\* with status failed and the exception's message as error.
C19_EntrypointCatchesRunFailure ==
  pc["graph"] = "raised" =>
    /\ exc["graph"] # None
    /\ http.phase \in {"running", "responded"}
    /\ http.phase = "responded"
         => /\ http.response.status = "failed"
            /\ http.response.error = exc["graph"]

\* A request whose run raised in Integration has been answered.
C19_Witness ==
  /\ pc["graph"] = "raised"
  /\ trace["graph"][Len(trace["graph"])] = <<"mcp", "raise">>
  /\ http.phase = "responded"
  /\ http.response.status = "failed"
  /\ http.response.error = "cannot write snapshot"

\* ------------------------------------------------------- EmbeddingCache
\* The capacity max_size of the cache, and the longest batch embedded.
MaxSize == 2

MaxBatch == 2

\* A text is its first 8000 characters and what follows them.
Texts ==
  {[head |-> "a", tail |-> ""], [head |-> "a", tail |-> "x"], [head |-> "a", tail |-> "y"],
   [head |-> "b", tail |-> ""]}

\* text[:8000]
Truncate(t) == [head |-> t.head, tail |-> ""]

\* _hash: a digest of the whole of the text it is given; two texts have the
\* same digest only if they are the same text.
Hash(t) == <<"sha256", t.head, t.tail>>

\* embed_query and embed_documents: the vector of the text they are given.
EmbedQuery(t) == [vector_of |-> t]

EmbedDocuments(ts) == [i \in 1..Len(ts) |-> [vector_of |-> ts[i]]]

Has(cache, key) == \E e \in cache : e.key = key

Lookup(cache, key) == (CHOOSE e \in cache : e.key = key).vec

\* self._cache[key] = vec
Put(cache, key, vec) == {e \in cache : e.key # key} \cup {[key |-> key, vec |-> vec]}

\* The keys of a dict, in the order of their insertion, without key.
Without(order, key) == SelectSeq(order, LAMBDA k : k # key)

\* self._cache.pop(key, None)
Pop(cache, key) == {e \in cache : e.key # key}

Batches == UNION {[1..n -> Texts] : n \in 1..MaxBatch}

CacheInit ==
  /\ input = [document_type |-> "text", file_path |-> None, raw_content |-> "inline text"]
  /\ env = EnvInit
  /\ st = [graph |-> GraphState(input), sync |-> WorkflowState(input)]
  /\ pc = [r \in Runs |-> "parked"]
  /\ running = [r \in Runs |-> FALSE]
  /\ trace = [r \in Runs |-> <<>>]
  /\ exc = [r \in Runs |-> None]
  /\ calls = <<>>
  /\ caller = "blocked"
  /\ http = NoRequest
  /\ cls = NoClassifier
  /\ ecache = [phase |-> "live", cache |-> {}, keys |-> <<>>, order |-> <<>>,
               asked |-> <<>>, returned |-> <<>>, evicted |-> <<>>]

\* embed(text)
Embed(text) ==
  LET key == Hash(text)
      cache == ecache.cache
      keys == ecache.keys
  IN /\ ecache.phase = "live"
     /\ IF Has(cache, key)
        THEN ecache' = [ecache EXCEPT !.asked = <<text>>,
                                      !.returned = <<Lookup(cache, key)>>,
                                      !.evicted = <<>>]
        ELSE LET vec == EmbedQuery(Truncate(text))
                 full == Cardinality(cache) >= MaxSize /\ keys # <<>>
                 cache1 == IF full THEN Pop(cache, Head(keys)) ELSE cache
                 keys1 == IF full THEN Tail(keys) ELSE keys
             IN ecache' = [ecache EXCEPT !.cache = Put(cache1, key, vec),
                                         !.keys = Append(keys1, key),
                                         !.order = Append(IF full
                                                          THEN Without(ecache.order, Head(keys))
                                                          ELSE ecache.order, key),
                                         !.asked = <<text>>,
                                         !.returned = <<vec>>,
                                         !.evicted = IF full THEN <<Head(keys)>> ELSE <<>>]
     /\ UNCHANGED <<input, env, st, pc, running, trace, exc, calls, caller, http, cls>>

\* The cache after the vectors of the texts at positions i..Len(texts) that
\* missed have been stored, one after the other.
RECURSIVE StoreMisses(_, _, _, _, _)
StoreMisses(cache, texts, vecs, misses, i) ==
  IF i > Len(texts) THEN cache
  ELSE StoreMisses(IF i \in misses
                   THEN Put(cache, Hash(Truncate(texts[i])), vecs[i])
                   ELSE cache,
                   texts, vecs, misses, i + 1)

\* The order of the keys of the dict after the same stores: a key that is
\* new goes to the end, a key that is there keeps its place.
RECURSIVE OrderMisses(_, _, _, _)
OrderMisses(order, texts, misses, i) ==
  IF i > Len(texts) THEN order
  ELSE LET key == Hash(Truncate(texts[i]))
       IN OrderMisses(IF i \in misses /\ \A k \in 1..Len(order) : order[k] # key
                      THEN Append(order, key)
                      ELSE order,
                      texts, misses, i + 1)

\* embed_batch(texts)
EmbedBatch(texts) ==
  LET cache == ecache.cache
      misses == {i \in 1..Len(texts) : ~Has(cache, Hash(Truncate(texts[i])))}
      vecs == EmbedDocuments(texts)
  IN /\ ecache.phase = "live"
     /\ ecache' = [ecache EXCEPT
                     !.cache = StoreMisses(cache, texts, vecs, misses, 1),
                     !.order = OrderMisses(ecache.order, texts, misses, 1),
                     !.asked = texts,
                     !.returned = [i \in 1..Len(texts) |->
                                     IF i \in misses THEN vecs[i]
                                     ELSE Lookup(cache, Hash(Truncate(texts[i])))],
                     !.evicted = <<>>]
     /\ UNCHANGED <<input, env, st, pc, running, trace, exc, calls, caller, http, cls>>

CacheNext ==
  \/ \E text \in Texts : Embed(text)
  \/ \E texts \in Batches : EmbedBatch(texts)

CacheSpec == CacheInit /\ [][CacheNext]_vars

\* C20: after any sequence of embed and embed_batch calls the cache holds at
\* most max_size entries.
C20_CacheBounded == ecache.phase = "live" => Cardinality(ecache.cache) <= MaxSize

KeysOf(cache) == {e.key : e \in cache}

\* C21: whenever inserting new keys would exceed capacity, one entry is
\* evicted for each key in excess and nothing else is, and the evicted
\* entries are the ones inserted earliest among those cached, whichever of
\* embed and embed_batch inserted them.
C21_FifoEviction ==
  [][LET old == KeysOf(ecache.cache)
         new == KeysOf(ecache'.cache)
         over == Cardinality(old) + Cardinality(new \ old) - MaxSize
     IN /\ over <= 0 => old \ new = {}
        /\ over > 0 =>
             old \ new = {ecache.order[i] : i \in {k \in 1..Len(ecache.order) : k <= over}}]_vars

\* C22: the vector returned for a text is the vector the embedder gives for
\* that text, whatever was embedded before.
C22_CacheTransparent ==
  /\ Len(ecache.returned) = Len(ecache.asked)
  /\ \A i \in 1..Len(ecache.asked) : ecache.returned[i] = EmbedQuery(ecache.asked[i])

\* The update that is merged onto the record of run r for the agent's
\* update up: the node's update dict in the graph, up itself in the runner.
UpdateOf(r, up) == IF r = "graph" THEN NodeUpdates(st[r], up) ELSE up

\* C23: for every stage and every record it is given, merging the update the
\* stage computed from the record a second time gives the record that
\* merging it once gives, messages included.
C23_MergeIdempotent ==
  \A r \in Runs :
    running[r] =>
      \A o \in Process(pc[r], IF r = "graph" THEN ToWorkflow(st[r]) ELSE st[r], env) :
        o.up # Raise =>
          LET once == Merge(st[r], UpdateOf(r, o.up))
          IN Merge(once, UpdateOf(r, o.up)) = once

\* Integration is about to hand back its update for a record that already
\* holds the messages of the stages before it.
C23_Witness ==
  /\ running["sync"] /\ pc["sync"] = "mcp"
  /\ running["graph"] /\ pc["graph"] = "mcp"
  /\ Len(st["sync"].messages) >= 2
  /\ Len(st["graph"].messages) >= 2

\* C24: given both inline content and a file reference, Intake takes its
\* content from the file, whatever the document type: it looks the file up
\* and what it stores is not the inline content.
C24_FileTakesPrecedence ==
  [][\A r \in Runs :
       (Returned(r, "intake") /\ Truthy(input.raw_content) /\ Truthy(input.file_path))
         => /\ env'.exists # Unset
            /\ st'[r].intake_result # Null
                 => st'[r].intake_result.raw_content # input.raw_content]_vars

\* C25: whatever the document type, when a file reference is supplied and
\* the file is not there (Intake found it missing, or did not look), Intake
\* returns status failed with the file-not-found error, leaves intake_result
\* null and keeps current_step and context_for_next_agent as they were.
C25_MissingFileFails ==
  [][\A r \in Runs :
       (Returned(r, "intake") /\ Truthy(input.file_path) /\ env'.exists # "yes")
         => /\ st'[r].status = "failed"
            /\ st'[r].error = "File not found"
            /\ st'[r].intake_result = Null
            /\ st'[r].current_step = st[r].current_step
            /\ st'[r].context_for_next_agent = st[r].context_for_next_agent]_vars

\* C26: for an image, whichever of inline content and file reference are
\* given, an Intake that does not fail attempts no text extraction and sets
\* requires_vision, so that vision is the next stage.
C26_ImageAlwaysNeedsVision ==
  [][\A r \in Runs :
       (Returned(r, "intake") /\ input.document_type = "image"
          /\ (Truthy(input.raw_content) \/ Truthy(input.file_path))
          /\ st'[r].status # "failed")
         => /\ env'.pdf = Unset /\ env'.read = Unset
            /\ st'[r].intake_result # Null
            /\ st'[r].intake_result.requires_vision
            /\ st'[r].current_step = "vision"
            /\ pc'[r] = "vision"]_vars

\* C27: for a pdf whose two extractors both raise, Intake records the error
\* in the metadata, stores empty content and leaves requires_vision false,
\* so that classification is the next stage.
C27_ExtractorFailureSkipsVision ==
  [][\A r \in Runs :
       (Returned(r, "intake") /\ input.document_type = "pdf" /\ env'.pdf = "raises")
         => /\ st'[r].intake_result # Null
            /\ "error" \in st'[r].intake_result.metadata
            /\ ~Truthy(st'[r].intake_result.raw_content)
            /\ ~st'[r].intake_result.requires_vision
            /\ pc'[r] = "classification"]_vars

\* C28: embeddings_added is true exactly when the content was indexed into
\* the vector store: false when the write failed and when none was made.
C28_EmbeddingsAddedMeansIndexed ==
  [][\A r \in Runs :
       Returned(r, "classification")
         => (st'[r].classification_result.embeddings_added <=> env'.index = "ok")]_vars

\* C29: between two stages of a run current_step is the name of the stage
\* that executes next, and in the record of a run that is over, in either
\* engine and on success or failure, it is the terminal marker.
C29_CurrentStepNamesNext ==
  \A r \in Runs :
    /\ (~running[r] /\ pc[r] \in SyncStages) => st[r].current_step = pc[r]
    /\ Done(r) => st[r].current_step = "end"

\* C30: the webhook Integration attempts carries the job id and document id
\* of the run and the status the record has when Integration runs, also in
\* a run that reaches Integration after an earlier stage failed.
C30_WebhookCarriesRunStatus ==
  [][\A r \in Runs :
       (Returned(r, "mcp") /\ env'.hook \in {"sent", "fail"})
         => \E p \in env'.posted :
              /\ p.job_id = st[r].job_id
              /\ p.document_id = st[r].document_id
              /\ p.status = st[r].status]_vars

====
